---------------------------- MODULE Spec2Model ----------------------------
(***************************************************************************)
(* Model of ethcore/src/engines/validator_set/contract.rs: the             *)
(* contract-backed validator set (ValidatorContract), its lazily bound     *)
(* provider::Contract and the RwLock that guards the provider slot.        *)
(*                                                                         *)
(* Worker threads call contains / get / count / report_malicious /         *)
(* report_benign / register_contract on one shared Arc<ValidatorContract>. *)
(* A step of a thread runs a method from one point where it touches the    *)
(* RwLock or the client to the next: taking a guard, entering the transact *)
(* closure, the return of transact_contract, dropping a guard.             *)
(***************************************************************************)
EXTENDS Integers, Sequences, FiniteSets, TLC

(***************************************************************************)
(* Bounds of the model.                                                    *)
(***************************************************************************)
NumThreads == 2
NumClients == 2
MaxCalls == 3

Threads == 1..NumThreads
Clients == 1..NumClients

(***************************************************************************)
(* Addresses: 20-byte account identifiers, as byte sequences.              *)
(***************************************************************************)
AddressLen == 20
AbiWord == 32

Zeros(n) == [k \in 1..n |-> 0]

\* The two validators of the test chain (tests::fetches_validators) and an
\* account that is no validator.
Validator1 == <<125, 87, 122, 89, 123, 39, 66, 180, 152, 203,
                92, 240, 194, 108, 220, 215, 38, 211, 158, 110>>
Validator2 == <<130, 169, 120, 179, 245, 150, 42, 91, 9, 87,
                217, 238, 158, 239, 71, 46, 229, 91, 66, 241>>
Unrelated == Zeros(AddressLen - 1) \o <<9>>

Addresses == {Validator1, Validator2, Unrelated}

\* The addresses misbehaviour is reported about: a validator and an account
\* that is none.
Reported == {Validator1, Unrelated}

\* Address::from_str("0000000000000000000000000000000000000005")
ContractAddress == Zeros(AddressLen - 1) \o <<5>>

NoAddress == <<>>

(***************************************************************************)
(* Result<T, String> and the strings the code builds with format!.         *)
(***************************************************************************)
NoText == [fmt |-> "", arg |-> ""]
Text(f, a) == [fmt |-> f, arg |-> a]

Ok(v) == [ok |-> TRUE, val |-> v, err |-> NoText]
Err(s) == [ok |-> FALSE, val |-> <<>>, err |-> s]
NoResult == [ok |-> FALSE, val |-> <<>>, err |-> NoText]

\* The errors Client::transact_contract can return (line 82, `e`).
TxErrors == {"TransactionError"}

NoClientError == Text("No client!", "")
ImportError(e) == Text("Transaction import error: {}", e)

(***************************************************************************)
(* provider::Contract: the ABI table and its codec.                        *)
(***************************************************************************)
\* ethabi::Interface::load of the JSON of line 105: two functions, one
\* address input each, no outputs.  The selector is the first four bytes of
\* keccak256 of the signature.
Abi ==
  { [name |-> "reportMalicious", inputs |-> <<"address">>, outputs |-> <<>>,
     selector |-> <<191, 199, 8, 160>>],
    [name |-> "reportBenign", inputs |-> <<"address">>, outputs |-> <<>>,
     selector |-> <<253, 110, 27, 80>>] }

\* self.contract.function(name).map_err(Self::as_string)
AbiFunction(name) ==
  IF \E f \in Abi : f.name = name
    THEN Ok(CHOOSE f \in Abi : f.name = name)
    ELSE Err(Text("InvalidName", name))

\* ethabi::Token::Address(a) encoded as one ABI word: left-padded with zeros.
EncodeAddressToken(a) == Zeros(AbiWord - Len(a)) \o a

\* call.encode_call(vec![Token::Address(validator)]).map_err(Self::as_string)
EncodeCall(f, validator) ==
  IF Len(f.inputs) = 1 /\ Len(validator) = AddressLen
    THEN Ok(f.selector \o EncodeAddressToken(validator))
    ELSE Err(Text("InvalidData", ""))

\* call.decode_output(bytes).map_err(Self::as_string): one ABI word is read
\* for each output; the output schema of both functions is empty, so nothing
\* is read from the bytes.
DecodeOutput(f, bytes) ==
  IF Len(bytes) >= AbiWord * Len(f.outputs) THEN Ok(<<>>)
                                            ELSE Err(Text("InvalidData", ""))

\* Variant: both provider methods look up reportMalicious.
ProviderFunctionNameSame(kind) == "reportMalicious"

\* The function name each provider method looks up.
ProviderFunctionName(kind) ==
  IF kind = "malicious" THEN "reportMalicious" ELSE "reportBenign"

\* provider::Contract::report_malicious / report_benign up to the call of
\* do_call: the function lookup and the encoding of the call data.
ProviderCallData(kind, validator) ==
  LET call == AbiFunction(ProviderFunctionName(kind))
  IN  IF call.ok THEN EncodeCall(call.val, validator) ELSE Err(call.err)

\* ... and after do_call returned `r`: `?` on the transport's Result, then
\* decode_output, then Ok(()).
ProviderFinish(kind, r) ==
  LET call == AbiFunction(ProviderFunctionName(kind))
  IN  IF ~r.ok THEN Err(r.err)
      ELSE IF ~call.ok THEN Err(call.err)
      ELSE LET out == DecodeOutput(call.val, r.val)
           IN  IF out.ok THEN Ok(<<>>) ELSE Err(out.err)

\* provider::Contract::new(address, do_call): the closure captures the weak
\* client, so the provider is the contract address and that client.
NoProvider == [present |-> FALSE, address |-> NoAddress, client |-> 0]
ProviderNew(address, client) ==
  [present |-> TRUE, address |-> address, client |-> client]

(***************************************************************************)
(* The log lines of warn!(target: "engine", ...).                          *)
(***************************************************************************)
LogEntry(level, f, a, s) ==
  [level |-> level, target |-> "engine", fmt |-> f, addr |-> a, err |-> s]

\* Variant: one text for both kinds of report.
LogReportedOneText(kind, a) ==
  LogEntry("warn", "Reported malicious validator {}", a, NoText)

\* lines 58 / 69
LogReported(kind, a) ==
  LogEntry("warn",
           IF kind = "malicious" THEN "Reported malicious validator {}"
                                 ELSE "Reported benign validator misbehaviour {}",
           a, NoText)

\* lines 59 / 70
LogNotReported(kind, a, s) ==
  LogEntry("warn", "Validator {} could not be reported {}", a, s)

\* Variant: the dropped report is logged at info level.
LogNoProviderInfo(kind) ==
  LogEntry("info",
           IF kind = "malicious"
             THEN "Malicious behaviour could not be reported: no provider contract."
             ELSE "Benign misbehaviour could not be reported: no provider contract.",
           NoAddress, NoText)

\* lines 62 / 73
LogNoProvider(kind) ==
  LogEntry("warn",
           IF kind = "malicious"
             THEN "Malicious behaviour could not be reported: no provider contract."
             ELSE "Benign misbehaviour could not be reported: no provider contract.",
           NoAddress, NoText)

(***************************************************************************)
(* The delegate (ValidatorSafeContract): the validator list and the        *)
(* registration hook.                                                      *)
(***************************************************************************)
DelegateValidators == <<Validator1, Validator2>>
DelegateContains(a) == \E i \in 1..Len(DelegateValidators) : DelegateValidators[i] = a
DelegateCount == Len(DelegateValidators)
DelegateGet(nonce) == DelegateValidators[(nonce % DelegateCount) + 1]

\* ValidatorSafeContract::new(contract_address) keeps the address in its
\* public field `address` (read at line 84).
DelegateAddress == ContractAddress

(***************************************************************************)
(* State.                                                                  *)
(***************************************************************************)
VARIABLES
  provider,        \* the slot: RwLock<Option<provider::Contract>> (line 30)
  readers,         \* threads holding the read lock of the slot
  writer,          \* the thread holding the write lock, or 0
  delegateClient,  \* the weak client last given to validators.register_contract, or 0
  clientOwned,     \* clientOwned[c]: the node still holds its Arc<Client> c
  th,              \* th[t]: position and locals of thread t in its current call
  regHist,         \* the clients of the returned register_contract calls, in order
  regLive,         \* the client of the call that returned last was alive when
                   \* that call was made
  nCalls,          \* number of calls begun so far, of any method
  doCallTotal,     \* number of invocations of a provider's do_call closure
  presentTotal,    \* number of report_* calls that found Some(provider)
  transactTotal,   \* number of Client::transact_contract calls
  pr,              \* a provider::Contract taken alone, and one call of it
  tr               \* a value of rpc/src/v1/types/trace.rs, and one conversion of it

\* The state of the ValidatorContract and of the threads that call it.
decoratorVars ==
  <<provider, readers, writer, delegateClient, clientOwned, th, regHist,
    regLive, nCalls, doCallTotal, presentTotal, transactTotal>>

vars == <<decoratorVars, pr, tr>>

\* What the transport was given in a call: the arguments of the do_call
\* closure, and the client whose transact_contract received them (0: none).
NoSent == [client |-> 0, to |-> NoAddress, data |-> <<>>]

\* A thread outside any call.
Idle ==
  [pc |-> "idle", op |-> "none", addr |-> NoAddress, client |-> 0,
   seen |-> NoProvider, built |-> NoProvider, strong |-> 0,
   res |-> NoResult, log |-> <<>>, doCalls |-> 0, transacts |-> 0,
   sent |-> NoSent, tx |-> NoResult, out |-> NoResult,
   live |-> FALSE, retBool |-> FALSE,
   retAddr |-> NoAddress, retCount |-> 0]

ReportOps == {"malicious", "benign"}
QueryOps == {"contains", "get", "count"}

\* Variant: the closure captures an Arc<Client>, so its client never dies.
AliveStrong(c) == TRUE

\* Weak::upgrade succeeds while some Arc<Client> exists: the node's own, or
\* one a thread obtained by an upgrade and has not dropped yet.
Alive(c) == clientOwned[c] \/ \E t \in Threads : th[t].strong = c

\* No provider::Contract and no trace value is looked at alone.
NoRun == [pc |-> "none"]

\* ValidatorContract::new (lines 34-39): provider: RwLock::new(None).
DecoratorInit ==
  /\ provider = NoProvider
  /\ readers = {}
  /\ writer = 0
  /\ delegateClient = 0
  /\ clientOwned = [c \in Clients |-> TRUE]
  /\ th = [t \in Threads |-> Idle]
  /\ regHist = <<>>
  /\ regLive = TRUE
  /\ nCalls = 0
  /\ doCallTotal = 0
  /\ presentTotal = 0
  /\ transactTotal = 0

Init == DecoratorInit /\ pr = NoRun /\ tr = NoRun

Set(t, r) == th' = [th EXCEPT ![t] = r]

\* A call begins on an idle thread.
Begin(t) ==
  /\ th[t].pc = "idle"
  /\ nCalls < MaxCalls
  /\ nCalls' = nCalls + 1

slotVars == <<provider, readers, writer>>
callVars == <<doCallTotal, presentTotal, transactTotal>>

(***************************************************************************)
(* contains / get / count (lines 43-53): forwarded to the delegate.        *)
(***************************************************************************)
\* Variant: membership is answered only once a Reporter is bound.
containsWhenBound(t, address) ==
  /\ Begin(t)
  /\ Set(t, [Idle EXCEPT !.pc = "ret", !.op = "contains", !.addr = address,
                         !.retBool = provider.present /\ DelegateContains(address)])
  /\ UNCHANGED <<pr, tr, slotVars, delegateClient, clientOwned, regHist, regLive, callVars>>

\* self.validators.contains(address) (line 44)
contains(t, address) ==
  /\ Begin(t)
  /\ Set(t, [Idle EXCEPT !.pc = "ret", !.op = "contains", !.addr = address,
                         !.retBool = DelegateContains(address)])
  /\ UNCHANGED <<pr, tr, slotVars, delegateClient, clientOwned, regHist, regLive, callVars>>

\* Variant: the index is shifted by one before the delegate is asked.
getNext(t, nonce) ==
  /\ Begin(t)
  /\ Set(t, [Idle EXCEPT !.pc = "ret", !.op = "get", !.retCount = nonce,
                         !.retAddr = DelegateGet(nonce + 1)])
  /\ UNCHANGED <<pr, tr, slotVars, delegateClient, clientOwned, regHist, regLive, callVars>>

\* self.validators.get(nonce) (line 48); the thread keeps the index it asked
\* for in retCount.
get(t, nonce) ==
  /\ Begin(t)
  /\ Set(t, [Idle EXCEPT !.pc = "ret", !.op = "get", !.retCount = nonce,
                         !.retAddr = DelegateGet(nonce)])
  /\ UNCHANGED <<pr, tr, slotVars, delegateClient, clientOwned, regHist, regLive, callVars>>

\* Variant: count reads under a read guard of the slot.
countLocked(t) ==
  /\ Begin(t)
  /\ writer = 0
  /\ readers' = readers \cup {t}
  /\ Set(t, [Idle EXCEPT !.pc = "ret", !.op = "count",
                         !.retCount = DelegateCount])
  /\ UNCHANGED <<pr, tr, provider, writer, delegateClient, clientOwned, regHist,
                 regLive, callVars>>

\* self.validators.count() (line 52)
count(t) ==
  /\ Begin(t)
  /\ Set(t, [Idle EXCEPT !.pc = "ret", !.op = "count",
                         !.retCount = DelegateCount])
  /\ UNCHANGED <<pr, tr, slotVars, delegateClient, clientOwned, regHist, regLive, callVars>>

\* The query returns its value to the caller.
QueryReturn(t) ==
  /\ th[t].pc = "ret"
  /\ Set(t, Idle)
  /\ UNCHANGED <<pr, tr, slotVars, delegateClient, clientOwned, regHist, regLive, nCalls,
                 callVars>>

(***************************************************************************)
(* report_malicious / report_benign (lines 55-75).                         *)
(***************************************************************************)
ReportBegin(t, kind, address) ==
  /\ Begin(t)
  /\ Set(t, [Idle EXCEPT !.pc = "read", !.op = kind, !.addr = address])
  /\ UNCHANGED <<pr, tr, slotVars, delegateClient, clientOwned, regHist, regLive, callVars>>

report_malicious(t, address) == ReportBegin(t, "malicious", address)

report_benign(t, address) == ReportBegin(t, "benign", address)

\* Variant: the failure arm logs without the error text.
MatchLogDropsError(kind, address, res) ==
  IF res.ok THEN LogReported(kind, address)
            ELSE LogNotReported(kind, address, NoText)

\* The match on the provider's result (lines 57-60 / 68-71).
MatchLog(kind, address, res) ==
  IF res.ok THEN LogReported(kind, address)
            ELSE LogNotReported(kind, address, res.err)

\* What the thread holds once provider.report_*(address) has returned `res`
\* and the match has logged it.
Reported_(me, res) ==
  [me EXCEPT !.res = res,
             !.log = Append(@, MatchLog(me.op, me.addr, res)),
             !.strong = 0,
             !.pc = "unlock"]

\* Variant: the read guard is dropped as soon as the slot has been read.
ReadLockEarlyRelease(t) ==
  /\ th[t].pc = "read"
  /\ writer = 0
  /\ IF provider.present
       THEN /\ Set(t, [th[t] EXCEPT !.seen = provider, !.pc = "call"])
            /\ presentTotal' = presentTotal + 1
       ELSE /\ Set(t, [th[t] EXCEPT !.log = Append(@, LogNoProvider(th[t].op)),
                                    !.pc = "unlock"])
            /\ UNCHANGED presentTotal
  /\ UNCHANGED <<pr, tr, slotVars, delegateClient, clientOwned, regHist, regLive,
                 nCalls, doCallTotal, transactTotal>>

\* Variant: the slot is guarded by a mutex, so a report excludes the others.
ReadLockExclusive(t) ==
  /\ th[t].pc = "read"
  /\ writer = 0
  /\ readers = {}
  /\ readers' = readers \cup {t}
  /\ IF provider.present
       THEN /\ Set(t, [th[t] EXCEPT !.seen = provider, !.pc = "call"])
            /\ presentTotal' = presentTotal + 1
       ELSE /\ Set(t, [th[t] EXCEPT !.log = Append(@, LogNoProvider(th[t].op)),
                                    !.pc = "unlock"])
            /\ UNCHANGED presentTotal
  /\ UNCHANGED <<pr, tr, provider, writer, delegateClient, clientOwned, regHist, regLive,
                 nCalls, doCallTotal, transactTotal>>

\* `if let Some(ref provider) = *self.provider.read()` (lines 56 / 67): the
\* read guard is a temporary of the scrutinee, so it lives until the end of
\* the whole if/else.  With None in the slot the else branch logs (lines
\* 62 / 73).
ReadLock(t) ==
  /\ th[t].pc = "read"
  /\ writer = 0
  /\ readers' = readers \cup {t}
  /\ IF provider.present
       THEN /\ Set(t, [th[t] EXCEPT !.seen = provider, !.pc = "call"])
            /\ presentTotal' = presentTotal + 1
       ELSE /\ Set(t, [th[t] EXCEPT !.log = Append(@, LogNoProvider(th[t].op)),
                                    !.pc = "unlock"])
            /\ UNCHANGED presentTotal
  /\ UNCHANGED <<pr, tr, provider, writer, delegateClient, clientOwned, regHist, regLive,
                 nCalls, doCallTotal, transactTotal>>

\* provider.report_*(address) up to the entry into the transact closure
\* (lines 115-119, 79-81): look the function up, encode the call, invoke
\* do_call(self.address, data); the closure upgrades its weak client and
\* fails with "No client!" when there is none.
ProviderCall(t) ==
  /\ th[t].pc = "call"
  /\ LET me == th[t]
         data == ProviderCallData(me.op, me.addr)
     IN  IF ~data.ok
           THEN /\ Set(t, Reported_(me, Err(data.err)))
                /\ UNCHANGED doCallTotal
           ELSE /\ doCallTotal' = doCallTotal + 1
                /\ LET inv == [me EXCEPT !.sent = [client |-> 0,
                                                     to |-> me.seen.address,
                                                     data |-> data.val],
                                          !.doCalls = @ + 1]
                   IN  IF Alive(me.seen.client)
                         THEN Set(t, [inv EXCEPT !.strong = me.seen.client,
                                                 !.pc = "transact"])
                         ELSE Set(t, Reported_([inv EXCEPT !.out = Err(NoClientError)],
                                        ProviderFinish(me.op, Err(NoClientError))))
  /\ UNCHANGED <<pr, tr, slotVars, delegateClient, clientOwned, regHist, regLive, nCalls,
                 presentTotal, transactTotal>>

\* Variant: the closure hands on what transact_contract returned.
TransactResultKeepsValue(r) ==
  IF r.ok THEN Ok(r.val) ELSE Err(ImportError(r.err.fmt))

\* The closure's value for the result `r` of transact_contract (lines 82-83):
\* an error is formatted, a success is replaced by Default::default().
TransactResult(r) ==
  IF r.ok THEN Ok(<<>>) ELSE Err(ImportError(r.err.fmt))

\* The results Client::transact_contract(a, d) can have.
TransactOutcomes == {Ok(<<1>>)} \cup {Err(Text(e, "")) : e \in TxErrors}

\* Variant: a failed submission is retried.
TransactContractRetries(t) ==
  /\ th[t].pc = "transact"
  /\ \E r \in TransactOutcomes :
       LET me == th[t]
           sub == [me EXCEPT !.sent.client = me.strong,
                             !.transacts = @ + 1]
       IN  IF r.ok
             THEN Set(t, Reported_(sub, ProviderFinish(me.op, TransactResult(r))))
             ELSE Set(t, [sub EXCEPT !.strong = 0, !.pc = "call"])
  /\ transactTotal' = transactTotal + 1
  /\ UNCHANGED <<pr, tr, slotVars, delegateClient, clientOwned, regHist, regLive, nCalls,
                 doCallTotal, presentTotal>>

\* c.transact_contract(a, d) returns (line 82), the upgraded Arc is dropped,
\* the provider decodes the output (lines 119-121) and the match logs.
TransactContract(t) ==
  /\ th[t].pc = "transact"
  /\ \E r \in TransactOutcomes :
       LET me == th[t]
           sub == [me EXCEPT !.sent.client = me.strong,
                             !.transacts = @ + 1,
                             !.tx = r,
                             !.out = TransactResult(r)]
       IN  Set(t, Reported_(sub, ProviderFinish(me.op, TransactResult(r))))
  /\ transactTotal' = transactTotal + 1
  /\ UNCHANGED <<pr, tr, slotVars, delegateClient, clientOwned, regHist, regLive, nCalls,
                 doCallTotal, presentTotal>>

\* Variant: a failed report empties the slot.
ReadUnlockTakes(t) ==
  /\ th[t].pc = "unlock"
  /\ readers' = readers \ {t}
  /\ provider' = IF th[t].seen.present /\ ~th[t].res.ok THEN NoProvider
                                                         ELSE provider
  /\ Set(t, Idle)
  /\ UNCHANGED <<pr, tr, writer, delegateClient, clientOwned, regHist, regLive,
                 nCalls, callVars>>

\* Variant: a failed report withdraws the client from the delegate.
ReadUnlockUnbinds(t) ==
  /\ th[t].pc = "unlock"
  /\ readers' = readers \ {t}
  /\ delegateClient' = IF th[t].seen.present /\ ~th[t].res.ok THEN 0
                                                               ELSE delegateClient
  /\ Set(t, Idle)
  /\ UNCHANGED <<pr, tr, provider, writer, clientOwned, regHist, regLive, nCalls, callVars>>

\* Variant: the method returns without dropping its read guard.
ReadUnlockLeaksGuard(t) ==
  /\ th[t].pc = "unlock"
  /\ Set(t, Idle)
  /\ UNCHANGED <<pr, tr, slotVars, delegateClient, clientOwned, regHist, regLive,
                 nCalls, callVars>>

\* End of the if/else: the read guard is dropped and the method returns.
ReadUnlock(t) ==
  /\ th[t].pc = "unlock"
  /\ readers' = readers \ {t}
  /\ Set(t, Idle)
  /\ UNCHANGED <<pr, tr, provider, writer, delegateClient, clientOwned, regHist, regLive,
                 nCalls, callVars>>

(***************************************************************************)
(* register_contract (lines 77-85).                                        *)
(***************************************************************************)
\* The call and its statements up to the write lock:
\* self.validators.register_contract(client.clone()) (line 78), then the
\* right-hand side of the assignment of line 84, which is evaluated before
\* the place it is assigned to:
\* Some(provider::Contract::new(self.validators.address, transact)).
\* Variant: the weak client is not forwarded to the delegate.
register_contractNoForward(t, client) ==
  /\ Begin(t)
  /\ Set(t, [Idle EXCEPT !.op = "register", !.client = client,
                         !.built = ProviderNew(DelegateAddress, client),
                         !.live = Alive(client),
                         !.pc = "reg_write"])
  /\ UNCHANGED <<pr, tr, slotVars, delegateClient, clientOwned, regHist, regLive, callVars>>

\* Variant: the write guard is taken first and held over the whole method.
register_contractLocked(t, client) ==
  /\ Begin(t)
  /\ writer = 0
  /\ readers = {}
  /\ writer' = t
  /\ delegateClient' = client
  /\ Set(t, [Idle EXCEPT !.op = "register", !.client = client,
                         !.built = ProviderNew(DelegateAddress, client),
                         !.live = Alive(client),
                         !.pc = "reg_store"])
  /\ UNCHANGED <<pr, tr, provider, readers, clientOwned, regHist, regLive, callVars>>

register_contract(t, client) ==
  /\ Begin(t)
  /\ delegateClient' = client
  /\ Set(t, [Idle EXCEPT !.op = "register", !.client = client,
                         !.built = ProviderNew(DelegateAddress, client),
                         !.live = Alive(client),
                         !.pc = "reg_write"])
  /\ UNCHANGED <<pr, tr, slotVars, clientOwned, regHist, regLive, callVars>>

\* Variant: the transaction is submitted under the write lock.
WriteLockProbes(t) ==
  /\ th[t].pc = "reg_write"
  /\ writer = 0
  /\ readers = {}
  /\ writer' = t
  /\ Set(t, [th[t] EXCEPT !.seen = th[t].built, !.strong = th[t].client,
                          !.pc = "transact"])
  /\ UNCHANGED <<pr, tr, provider, readers, delegateClient, clientOwned, regHist, regLive,
                 nCalls, callVars>>

\* Variant: the write guard is taken while read guards are held.
WriteLockBarging(t) ==
  /\ th[t].pc = "reg_write"
  /\ writer = 0
  /\ writer' = t
  /\ Set(t, [th[t] EXCEPT !.pc = "reg_store"])
  /\ UNCHANGED <<pr, tr, provider, readers, delegateClient, clientOwned, regHist, regLive,
                 nCalls, callVars>>

\* self.provider.write() (line 84)
WriteLock(t) ==
  /\ th[t].pc = "reg_write"
  /\ writer = 0
  /\ readers = {}
  /\ writer' = t
  /\ Set(t, [th[t] EXCEPT !.pc = "reg_store"])
  /\ UNCHANGED <<pr, tr, provider, readers, delegateClient, clientOwned, regHist, regLive,
                 nCalls, callVars>>

\* Variant: nothing is stored when the client cannot be upgraded.
StoreProviderIfLive(t) ==
  /\ th[t].pc = "reg_store"
  /\ provider' = IF Alive(th[t].client) THEN th[t].built ELSE provider
  /\ writer' = 0
  /\ regHist' = Append(regHist, th[t].client)
  /\ regLive' = th[t].live
  /\ Set(t, Idle)
  /\ UNCHANGED <<pr, tr, readers, delegateClient, clientOwned, nCalls, callVars>>

\* *guard = Some(..) (line 84): the old value of the slot is dropped; at the
\* end of the statement the write guard is dropped and the method returns.
StoreProvider(t) ==
  /\ th[t].pc = "reg_store"
  /\ provider' = th[t].built
  /\ writer' = 0
  /\ regHist' = Append(regHist, th[t].client)
  /\ regLive' = th[t].live
  /\ Set(t, Idle)
  /\ UNCHANGED <<pr, tr, readers, delegateClient, clientOwned, nCalls, callVars>>

(***************************************************************************)
(* The environment: the node drops its Arc<Client> (shutdown).  Only the   *)
(* clients the component holds a weak handle to are followed: the drop of  *)
(* any other client is invisible to it.                                    *)
(***************************************************************************)
WeakHeld(c) ==
  \/ provider.client = c
  \/ delegateClient = c
  \/ \E t \in Threads : th[t].client = c \/ th[t].seen.client = c

DropClient(c) ==
  /\ clientOwned[c]
  /\ WeakHeld(c)
  /\ clientOwned' = [clientOwned EXCEPT ![c] = FALSE]
  /\ UNCHANGED <<pr, tr, slotVars, delegateClient, th, regHist, regLive, nCalls, callVars>>

Next ==
  \/ \E t \in Threads, a \in Addresses : contains(t, a)
  \/ \E t \in Threads, n \in 0..DelegateCount : get(t, n)
  \/ \E t \in Threads : count(t)
  \/ \E t \in Threads : QueryReturn(t)
  \/ \E t \in Threads, a \in Reported : report_malicious(t, a)
  \/ \E t \in Threads, a \in Reported : report_benign(t, a)
  \/ \E t \in Threads : ReadLock(t)
  \/ \E t \in Threads : ProviderCall(t)
  \/ \E t \in Threads : TransactContract(t)
  \/ \E t \in Threads : ReadUnlock(t)
  \/ \E t \in Threads, c \in Clients : register_contract(t, c)
  \/ \E t \in Threads : WriteLock(t)
  \/ \E t \in Threads : StoreProvider(t)
  \/ \E c \in Clients : DropClient(c)

Spec == Init /\ [][Next]_vars

(***************************************************************************)
(* provider::Contract taken alone (lines 97-135): report_malicious and     *)
(* report_benign as functions of the Contract they are called on, that is  *)
(* of its interface, its address and what its do_call closure returns.     *)
(***************************************************************************)
\* self.contract.function(name) on any interface.
ContractFunction(contract, name) ==
  IF \E f \in contract : f.name = name
    THEN Ok(CHOOSE f \in contract : f.name = name)
    ELSE Err(Text("InvalidName", name))

\* Interfaces a Contract can be given: the one of line 105, one without
\* reportBenign, one whose functions take a second input and one whose
\* functions return a value.
Interfaces ==
  { Abi,
    {f \in Abi : f.name = "reportMalicious"},
    {[f EXCEPT !.inputs = <<"address", "uint256">>] : f \in Abi},
    {[f EXCEPT !.outputs = <<"bool">>] : f \in Abi} }

\* What a do_call closure can return: Result<Vec<u8>, String>.
DoCallResults ==
  { Ok(<<>>), Ok(Zeros(AbiWord)),
    Err(NoClientError), Err(ImportError("TransactionError")) }

\* A call that has not touched the transport.
NotInvoked(ret) == [ret |-> ret, doCalls |-> 0, decodes |-> 0, sent |-> NoSent]

\* Variant: the closure's error is formatted with as_string like the others.
ProviderReportFormatsAll(contract, address, result, kind, validator) ==
  LET call == ContractFunction(contract, ProviderFunctionName(kind))
  IN  IF ~call.ok THEN NotInvoked(Err(call.err))
      ELSE LET data == EncodeCall(call.val, validator)
           IN  IF ~data.ok THEN NotInvoked(Err(data.err))
               ELSE LET sent == [client |-> 0, to |-> address, data |-> data.val]
                    IN  IF ~result.ok
                          THEN [ret |-> Err(Text("{:?}", result.err.fmt)),
                                doCalls |-> 1, decodes |-> 0, sent |-> sent]
                          ELSE LET out == DecodeOutput(call.val, result.val)
                               IN  [ret |-> IF out.ok THEN Ok(<<>>) ELSE Err(out.err),
                                    doCalls |-> 1, decodes |-> 1, sent |-> sent]

\* provider::Contract::report_malicious / report_benign (lines 114-122 /
\* 126-134), statement by statement: each `?` returns the error at once.
\* `result` is what (self.do_call)(self.address, data) returns.  The value
\* is what the method returns, with how often the closure was called, how
\* often decode_output was, and what the closure was given.
ProviderReport(contract, address, result, kind, validator) ==
  LET call == ContractFunction(contract, ProviderFunctionName(kind))
  IN  IF ~call.ok THEN NotInvoked(Err(call.err))
      ELSE LET data == EncodeCall(call.val, validator)
           IN  IF ~data.ok THEN NotInvoked(Err(data.err))
               ELSE LET sent == [client |-> 0, to |-> address, data |-> data.val]
                    IN  IF ~result.ok
                          THEN [ret |-> Err(result.err),
                                doCalls |-> 1, decodes |-> 0, sent |-> sent]
                          ELSE LET out == DecodeOutput(call.val, result.val)
                               IN  [ret |-> IF out.ok THEN Ok(<<>>) ELSE Err(out.err),
                                    doCalls |-> 1, decodes |-> 1, sent |-> sent]

\* provider::Contract::new(address, do_call) (lines 103-109), for any
\* interface; no call has been made yet.
ProviderInit ==
  /\ DecoratorInit
  /\ \E contract \in Interfaces, result \in DoCallResults :
       pr = [pc |-> "new", contract |-> contract, address |-> ContractAddress,
             result |-> result, kind |-> "none", validator |-> NoAddress,
             out |-> NotInvoked(NoResult)]
  /\ tr = NoRun

ProviderReportCall(kind, validator) ==
  /\ pr.pc = "new"
  /\ pr' = [pr EXCEPT !.pc = "done", !.kind = kind, !.validator = validator,
                      !.out = ProviderReport(pr.contract, pr.address, pr.result,
                                             kind, validator)]
  /\ UNCHANGED <<decoratorVars, tr>>

provider_report_malicious(validator) == ProviderReportCall("malicious", validator)

provider_report_benign(validator) == ProviderReportCall("benign", validator)

ProviderNext ==
  \/ \E a \in Addresses : provider_report_malicious(a)
  \/ \E a \in Addresses : provider_report_benign(a)

ProviderSpec == ProviderInit /\ [][ProviderNext]_vars

\* The steps of thread t inside a call it has begun.
Step(t) ==
  \/ QueryReturn(t)
  \/ ReadLock(t)
  \/ ProviderCall(t)
  \/ TransactContract(t)
  \/ ReadUnlock(t)
  \/ WriteLock(t)
  \/ StoreProvider(t)

(***************************************************************************)
(* Vocabulary of the properties.                                           *)
(***************************************************************************)
IsReport(t) == th[t].op \in ReportOps
IsRegister(t) == th[t].op = "register"

\* The report of thread t has done everything but drop its read guard.
Returning(t) == IsReport(t) /\ th[t].pc = "unlock"

\* register_contract has never been called.
NeverRegistered == regHist = <<>> /\ \A t \in Threads : ~IsRegister(t)

\* Every client has been destroyed: the node dropped it and no upgraded Arc
\* is left.
Destroyed(c) == ~clientOwned[c] /\ \A t \in Threads : th[t].strong # c

NoProviderTexts ==
  [malicious |-> "Malicious behaviour could not be reported: no provider contract.",
   benign |-> "Benign misbehaviour could not be reported: no provider contract."]

ReportedTexts ==
  [malicious |-> "Reported malicious validator {}",
   benign |-> "Reported benign validator misbehaviour {}"]

NoClientText == [fmt |-> "No client!", arg |-> ""]

ImportErrorTexts ==
  {[fmt |-> "Transaction import error: {}", arg |-> e] : e \in TxErrors}

\* C1: before any register_contract call, a report_malicious/report_benign
\* call is never blocked, never invokes the transport or transact_contract,
\* and ends with exactly one log entry, a warning that says there is no
\* provider contract.
C1_UnregisteredReportIsDropped ==
  NeverRegistered =>
    /\ writer = 0
    /\ doCallTotal = 0
    /\ transactTotal = 0
    /\ \A t \in Threads : IsReport(t) =>
         /\ th[t].pc \in {"read", "unlock"}
         /\ th[t].doCalls = 0 /\ th[t].transacts = 0
         /\ th[t].pc = "read" => th[t].log = <<>>
         /\ th[t].pc = "unlock" =>
              /\ Len(th[t].log) = 1
              /\ th[t].log[1].level = "warn"
              /\ th[t].log[1].fmt = NoProviderTexts[th[t].op]

C1_Witness ==
  /\ NeverRegistered
  /\ \E t \in Threads :
       /\ Returning(t)
       /\ th[t].op = "benign"
       /\ Len(th[t].log) = 1

\* C2: a report that found a Reporter and whose transport failed ends
\* (without error value: it only has its read guard left to drop) with
\* exactly one log entry, a warning holding the reported address and the
\* failure text of the transport.
C2_TransportFailureIsLogged ==
  \A t \in Threads :
    (Returning(t) /\ th[t].seen.present /\ ~th[t].res.ok) =>
      /\ th[t].doCalls = 1
      /\ Len(th[t].log) = 1
      /\ th[t].log[1].level = "warn"
      /\ th[t].log[1].addr = th[t].addr
      /\ th[t].log[1].err = th[t].res.err
      /\ IF th[t].transacts = 0
           THEN th[t].log[1].err = NoClientText
           ELSE th[t].log[1].err \in ImportErrorTexts

C2_Witness ==
  \E t \in Threads :
    /\ Returning(t)
    /\ th[t].op = "malicious"
    /\ th[t].transacts = 1
    /\ ~th[t].res.ok
    /\ Len(th[t].log) = 1

\* C3: once a second register_contract call has returned, every report that
\* is about to invoke, or is inside, or has left the transport uses the
\* Reporter of the register_contract call that returned last, which is the
\* one in the slot.
C3_ReportsUseLastRegistration ==
  Len(regHist) >= 2 =>
    /\ provider.present
    /\ provider.client = regHist[Len(regHist)]
    /\ \A t \in Threads :
         (IsReport(t) /\ th[t].pc \in {"call", "transact", "unlock"}
                      /\ th[t].seen.present) =>
           th[t].seen.client = regHist[Len(regHist)]

C3_Witness ==
  /\ Len(regHist) = 2
  /\ regHist[1] # regHist[2]
  /\ \E t \in Threads :
       /\ th[t].pc = "transact"
       /\ th[t].seen.client = regHist[2]

\* C4: the slot is empty until the first register_contract call has
\* returned and holds a Reporter in every state from then on.
C4_SlotPresentOnceRegistered ==
  /\ Len(regHist) = 0 => ~provider.present
  /\ Len(regHist) > 0 => provider.present

\* A registration and two reports have returned, one of them failed for want
\* of a client, and the Reporter is still there.
C4_Witness ==
  /\ provider.present
  /\ Len(regHist) = 1
  /\ \A t \in Threads : th[t].pc = "idle"
  /\ doCallTotal = 2
  /\ transactTotal < 2

\* A thread is executing the transact closure: it has upgraded the weak
\* client and transact_contract has not returned yet.
InTransport(t) == th[t].pc = "transact"

\* C5 as stated: no thread executes the transport closure while it holds the
\* read lock or the write lock of the Reporter slot.
C5_Original_NoLockInTransport ==
  \A t \in Threads : InTransport(t) => (t \notin readers /\ writer # t)

\* C5, amended: no thread executes the transport closure while it holds the
\* write lock, and register_contract never executes it; report_malicious and
\* report_benign execute it while they hold the read lock, so that no write
\* lock is held by anyone meanwhile.
C5_TransportUnderReadLockOnly ==
  /\ \A t \in Threads : InTransport(t) =>
       /\ IsReport(t)
       /\ t \in readers
       /\ writer = 0
  /\ \A t \in Threads : IsRegister(t) =>
       /\ th[t].pc \in {"reg_write", "reg_store"}
       /\ th[t].strong = 0
       /\ th[t].doCalls = 0 /\ th[t].transacts = 0

\* A report is inside the transport while a register_contract call waits for
\* the write lock.
C5_Witness ==
  \E t, u \in Threads :
    /\ InTransport(t) /\ t \in readers
    /\ th[u].pc = "reg_write"

SelectorOf ==
  [malicious |-> <<191, 199, 8, 160>>, benign |-> <<253, 110, 27, 80>>]

\* C6: what the transport is given by report_malicious(addr) (resp.
\* report_benign(addr)) is the contract address of the construction and 36
\* bytes of call data: the selector of reportMalicious(address) (resp.
\* reportBenign(address)), twelve zero bytes and the twenty bytes of addr; a
\* live client's transact_contract is given the same.
C6_CallDataIsSelectorAndPaddedAddress ==
  \A t \in Threads : (IsReport(t) /\ th[t].doCalls > 0) =>
    /\ th[t].sent.to = [k \in 1..19 |-> 0] \o <<5>>
    /\ Len(th[t].sent.data) = 36
    /\ SubSeq(th[t].sent.data, 1, 4) = SelectorOf[th[t].op]
    /\ \A k \in 5..16 : th[t].sent.data[k] = 0
    /\ SubSeq(th[t].sent.data, 17, 36) = th[t].addr
    /\ SelectorOf[th[t].op] # SelectorOf[IF th[t].op = "benign" THEN "malicious"
                                                               ELSE "benign"]
    /\ th[t].transacts > 0 => th[t].sent.client = th[t].seen.client

C6_Witness ==
  \E t \in Threads :
    /\ Returning(t)
    /\ th[t].op = "benign"
    /\ th[t].addr = Validator1
    /\ th[t].transacts = 1
    /\ th[t].res.ok

\* C7: when the client of the Reporter a report found has been destroyed
\* before the report invokes the transport, the invocation fails with
\* "No client!" without any transact_contract call, and the report logs one
\* warning with that text and has only its read guard left to drop.
C7_DeadClientFailsFast ==
  [][\A t \in Threads :
       (/\ th[t].pc = "call"
        /\ Destroyed(th[t].seen.client)
        /\ th'[t] # th[t]) =>
         /\ th'[t].pc = "unlock"
         /\ th'[t].doCalls = 1
         /\ th'[t].transacts = 0
         /\ transactTotal' = transactTotal
         /\ th'[t].res = [ok |-> FALSE, val |-> <<>>, err |-> NoClientText]
         /\ Len(th'[t].log) = 1
         /\ th'[t].log[1].level = "warn"
         /\ th'[t].log[1].addr = th[t].addr
         /\ th'[t].log[1].err = NoClientText]_vars

C7_Witness ==
  \E t \in Threads :
    /\ Returning(t)
    /\ th[t].seen.present
    /\ Destroyed(th[t].seen.client)
    /\ th[t].doCalls = 1
    /\ th[t].transacts = 0
    /\ th[t].res.err = NoClientText

\* C8: a report that found a Reporter invokes the transport exactly once,
\* whatever the outcome, a report that found none never does, and the number
\* of transport invocations so far is the number of reports that found a
\* Reporter, less those that have not reached the invocation yet.
C8_OneInvocationPerPresentReport ==
  /\ \A t \in Threads : IsReport(t) =>
       /\ th[t].pc \in {"read", "call"} => th[t].doCalls = 0
       /\ th[t].pc = "transact" => th[t].doCalls = 1
       /\ th[t].pc = "unlock" =>
            th[t].doCalls = IF th[t].seen.present THEN 1 ELSE 0
       /\ th[t].transacts <= th[t].doCalls
  /\ doCallTotal =
       presentTotal - Cardinality({t \in Threads : th[t].pc = "call"})
  /\ transactTotal <= doCallTotal

\* A report was dropped before the registration, one made after it failed
\* in the transport, and the transport has been invoked once in all.
C8_Witness ==
  /\ nCalls = 3
  /\ Len(regHist) = 1
  /\ presentTotal = 1
  /\ doCallTotal = 1
  /\ \E t \in Threads :
       /\ Returning(t) /\ th[t].seen.present /\ ~th[t].res.ok
       /\ th[t].transacts = 1

\* The report of thread t succeeded and has only its read guard left to drop.
Succeeded(t) == Returning(t) /\ th[t].res.ok

C10_RegisterNeverFailsNorSubmits ==
  /\ \A t \in Threads : IsRegister(t) =>
       /\ th[t].log = <<>>
       /\ th[t].res = [ok |-> FALSE, val |-> <<>>, err |-> [fmt |-> "", arg |-> ""]]
       /\ th[t].doCalls = 0 /\ th[t].transacts = 0 /\ th[t].strong = 0
       /\ th[t].pc \in {"reg_write", "reg_store"} =>
            th[t].built = [present |-> TRUE,
                           address |-> [k \in 1..19 |-> 0] \o <<5>>,
                           client |-> th[t].client]
  /\ Len(regHist) > 0 =>
       /\ provider.present
       /\ provider.client = regHist[Len(regHist)]
       /\ provider.address = [k \in 1..19 |-> 0] \o <<5>>
  /\ transactTotal <= doCallTotal
  /\ doCallTotal <= presentTotal

\* The client was dead when register_contract was called; the call
\* has returned, the Reporter is in the slot, nothing has been submitted,
\* and a later report has met "No client!".
C10_Witness ==
  /\ Len(regHist) = 2
  /\ ~regLive
  /\ provider.present
  /\ provider.client = regHist[2]
  /\ transactTotal = 0
  /\ \E t \in Threads :
       /\ Returning(t)
       /\ th[t].res.err = NoClientText
       /\ Len(th[t].log) = 1

\* The thread's query has its answer and has not handed it to the caller yet.
Answered(t, op) == th[t].pc = "ret" /\ th[t].op = op

\* The validator list of the test chain, in the delegate's order.
ExpectedValidators ==
  << <<125, 87, 122, 89, 123, 39, 66, 180, 152, 203,
       92, 240, 194, 108, 220, 215, 38, 211, 158, 110>>,
     <<130, 169, 120, 179, 245, 150, 42, 91, 9, 87,
       217, 238, 158, 239, 71, 46, 229, 91, 66, 241>> >>

\* C11: whether no Reporter is bound, one is being bound or one is bound,
\* and whatever the other threads are doing, contains(a) answers true for
\* the addresses of the delegate's validator list and false for every other
\* address.
C11_ContainsIsDelegateMembership ==
  \A t \in Threads : Answered(t, "contains") =>
    (th[t].retBool <=>
       \E i \in 1..Len(ExpectedValidators) : ExpectedValidators[i] = th[t].addr)

\* contains answers true for a validator before any registration, while
\* another thread's contains answers false for an account that is none.
C11_Witness ==
  /\ ~provider.present
  /\ \E t, u \in Threads :
       /\ Answered(t, "contains") /\ th[t].addr = Validator2 /\ th[t].retBool
       /\ Answered(u, "contains") /\ th[u].addr = Unrelated /\ ~th[u].retBool

Holders == readers \cup (IF writer = 0 THEN {} ELSE {writer})

\* The thread waits for a guard of the slot's lock.
Waiting(t) == th[t].pc \in {"read", "reg_write"}

\* The thread is inside a call and past its wait for the lock: what it has
\* left to do is the transport invocation, the store and its return.
Running(t) == th[t].pc \in {"ret", "call", "transact", "unlock", "reg_store"}

\* C13: no deadlock is reachable. A thread that holds a guard of the lock
\* never waits for the lock, so it returns once its transport invocation
\* has returned; a thread that waits for the lock can take it, or the lock
\* is held by another thread, which does not wait.
C13_NoDeadlock ==
  /\ \A t \in Holders : Running(t)
  /\ \A t \in Threads : th[t].pc \in {"call", "transact", "unlock"} => t \in readers
  /\ \A t \in Threads : th[t].pc = "reg_store" => writer = t
  /\ \A t \in Threads : Waiting(t) =>
       \/ \E u \in Holders \ {t} : Running(u)
       \/ ENABLED Step(t)

\* A report waits for the write guard of a register_contract call to be
\* dropped, and that call has only its store left to do.
C13_Witness ==
  \E t, u \in Threads :
    /\ th[t].pc = "read" /\ IsReport(t) /\ ~ENABLED Step(t)
    /\ writer = u /\ th[u].pc = "reg_store"

\* C14: once two register_contract calls made with different clients have
\* both returned (and no further one is under way), the client the delegate
\* was given last is the client of the Reporter in the slot.
C14_DelegateAndReporterSameClient ==
  (/\ Len(regHist) = 2
   /\ regHist[1] # regHist[2]
   /\ \A t \in Threads : ~IsRegister(t)) =>
    /\ provider.present
    /\ provider.client = delegateClient

\* The report of thread t has read the slot and has not returned yet.
PastRead(t) == IsReport(t) /\ th[t].pc \in {"call", "transact", "unlock"}

\* The values the slot can hold: nothing, or a whole Reporter of the
\* contract address and one client.
WholeSlots ==
  {[present |-> FALSE, address |-> <<>>, client |-> 0]} \cup
  {[present |-> TRUE, address |-> [k \in 1..19 |-> 0] \o <<5>>, client |-> c] :
     c \in Clients}

\* C15: whatever register_contract calls overlap it, a report that has read
\* the slot has read a whole value, which is still the value of the slot
\* until the report returns: either nothing, and then it invokes no
\* transport and logs the no-provider warning, or one Reporter, and then it
\* invokes the transport of that Reporter and no other, at most once so far
\* and exactly once by the time it returns.
C15_OverlappingReportSeesOneSlotValue ==
  \A t \in Threads : PastRead(t) =>
    /\ th[t].seen \in WholeSlots
    /\ th[t].seen = provider
    /\ IF th[t].seen.present
         THEN /\ th[t].doCalls = (IF th[t].pc = "call" THEN 0 ELSE 1)
              /\ th[t].transacts <= 1
              /\ th[t].sent.client \in {0, th[t].seen.client}
              /\ th[t].strong \in {0, th[t].seen.client}
         ELSE /\ th[t].pc = "unlock"
              /\ th[t].doCalls = 0 /\ th[t].transacts = 0
              /\ th[t].sent.client = 0
              /\ Len(th[t].log) = 1
              /\ th[t].log[1].fmt = NoProviderTexts[th[t].op]

\* A report is inside the transport of the Reporter of one client while a
\* register_contract call made with another client waits to store its own.
C15_Witness ==
  \E t, u \in Threads :
    /\ PastRead(t) /\ InTransport(t)
    /\ th[u].pc = "reg_write"
    /\ th[u].built.client # th[t].seen.client
    /\ th[t].seen = provider

C17_WriteLockOnlyForTheStore ==
  [][\A t \in Threads :
       /\ (writer # t /\ writer' = t) =>
            /\ IsRegister(t)
            /\ delegateClient # 0
            /\ delegateClient' = delegateClient
            /\ th[t].built = [present |-> TRUE,
                              address |-> [k \in 1..19 |-> 0] \o <<5>>,
                              client |-> th[t].client]
            /\ th'[t].built = th[t].built
            /\ provider' = provider
            /\ readers = {}
       /\ writer = t =>
            /\ readers = {} /\ readers' = {}
            /\ \A u \in Threads : th[u].pc \notin {"call", "transact", "unlock"}
            /\ callVars' = callVars
            /\ th'[t] # th[t] =>
                 /\ delegateClient' = delegateClient
                 /\ provider' = th[t].built
                 /\ writer' = 0
                 /\ th'[t].pc = "idle"]_vars

\* A register_contract call holds the write guard and is about to replace
\* the Reporter of another client; the delegate has its client already.
C17_Witness ==
  \E t \in Threads :
    /\ writer = t
    /\ th[t].pc = "reg_store"
    /\ provider.present
    /\ provider.client # th[t].built.client
    /\ delegateClient = th[t].client

\* C18: a register_contract call forwards its client to the delegate before
\* it stores its Reporter: a call that has its store left to do has
\* forwarded it, and whenever a Reporter is in the slot the delegate has
\* been given a client. As long as the delegate has been notified and the
\* slot is still empty, a report finds nothing: it invokes no transport and
\* ends with the no-provider warning.
C18_DelegateNotifiedBeforeStore ==
  /\ \A t \in Threads : IsRegister(t) => delegateClient \in Clients
  /\ provider.present => delegateClient \in Clients
  /\ regHist # <<>> => delegateClient \in Clients
  /\ (delegateClient # 0 /\ ~provider.present) =>
       /\ regHist = <<>>
       /\ doCallTotal = 0
       /\ \A t \in Threads : IsReport(t) =>
            /\ th[t].pc \in {"read", "unlock"}
            /\ th[t].pc = "unlock" =>
                 /\ th[t].log =
                      << [level |-> "warn", target |-> "engine",
                          fmt |-> NoProviderTexts[th[t].op],
                          addr |-> <<>>, err |-> [fmt |-> "", arg |-> ""]] >>
                 /\ th[t].doCalls = 0

\* The delegate has been given the client, the Reporter is built and waits
\* for the write guard, because a report holds a read guard: it found the
\* slot empty and has logged the no-provider warning.
C18_Witness ==
  \E t, u \in Threads :
    /\ delegateClient # 0
    /\ ~provider.present
    /\ th[u].pc = "reg_write" /\ th[u].built.present
    /\ Returning(t) /\ t \in readers
    /\ th[t].op = "malicious"
    /\ Len(th[t].log) = 1

\* The report of thread t found a Reporter and failed; it has only its read
\* guard left to drop.
Failed(t) == Returning(t) /\ th[t].seen.present /\ ~th[t].res.ok

\* C19: no step of a report, failed or not, changes the slot, the delegate's
\* client, the lock's writer or the clients, and a failed report returns
\* leaving nothing behind but its dropped read guard; every report that
\* finds the Reporter invokes its transport, whatever failed before, and
\* once transact_contract has been called the report fails only with the
\* transport's own import error.
C19_FailedReportLeavesDecoratorUnchanged ==
  [][\A t \in Threads : (IsReport(t) /\ th'[t] # th[t]) =>
       /\ provider' = provider
       /\ delegateClient' = delegateClient
       /\ writer' = writer
       /\ regHist' = regHist
       /\ clientOwned' = clientOwned
       /\ \A u \in Threads \ {t} : th'[u] = th[u]
       /\ Failed(t) =>
            /\ th'[t].pc = "idle"
            /\ readers' = readers \ {t}
            /\ callVars' = callVars
       /\ (th[t].pc = "call" /\ th[t].seen.present) =>
            /\ doCallTotal' = doCallTotal + 1
            /\ th'[t].doCalls = 1
       /\ th[t].pc = "transact" =>
            /\ transactTotal' = transactTotal + 1
            /\ th'[t].res.ok \/ th'[t].res.err \in ImportErrorTexts]_vars

\* A report has failed in the transport and another, which found the same
\* Reporter still in the slot, has succeeded.
C19_Witness ==
  \E t, u \in Threads :
    /\ Failed(t) /\ th[t].transacts = 1
    /\ Succeeded(u)
    /\ th[u].seen = th[t].seen
    /\ provider = th[t].seen
    /\ delegateClient # 0

FunctionNames == [malicious |-> "reportMalicious", benign |-> "reportBenign"]

\* The function the call of pr is about is in the interface of pr.
Found == \E f \in pr.contract : f.name = FunctionNames[pr.kind]

\* ... and takes the one address it is given.
Encodable ==
  \A f \in pr.contract : f.name = FunctionNames[pr.kind] => f.inputs = <<"address">>

\* ... and the bytes the transport returned hold a word for each output.
Decodable ==
  \A f \in pr.contract : f.name = FunctionNames[pr.kind] =>
    Len(pr.result.val) >= 32 * Len(f.outputs)

\* C20: the Reporter's report_malicious/report_benign look the function up,
\* encode, invoke the transport and decode, in this order, and return the
\* first failure as one error string: after a failed lookup or encoding the
\* transport has not been invoked; after a failed transport invocation
\* nothing has been decoded and the string is the transport's own; Ok(())
\* is returned exactly when all four steps succeeded, and what the transport
\* was given is the Reporter's address and the encoded call.
C20_ReporterStopsAtFirstFailure ==
  pr.pc = "done" =>
    LET o == pr.out
    IN  /\ o.doCalls = (IF Found /\ Encodable THEN 1 ELSE 0)
        /\ o.decodes = (IF Found /\ Encodable /\ pr.result.ok THEN 1 ELSE 0)
        /\ o.ret.ok <=> (Found /\ Encodable /\ pr.result.ok /\ Decodable)
        /\ o.ret.ok => o.ret.val = <<>>
        /\ ~o.ret.ok => o.ret.val = <<>> /\ o.ret.err # [fmt |-> "", arg |-> ""]
        /\ ~Found => o.ret.err = [fmt |-> "InvalidName", arg |-> FunctionNames[pr.kind]]
        /\ (Found /\ Encodable /\ ~pr.result.ok) => o.ret.err = pr.result.err
        /\ o.doCalls = 1 =>
             /\ o.sent.to = [k \in 1..19 |-> 0] \o <<5>>
             /\ o.sent.data = SelectorOf[pr.kind] \o [k \in 1..12 |-> 0] \o pr.validator
        /\ o.doCalls = 0 => o.sent.data = <<>>

\* report_benign on a Reporter whose interface has no reportBenign: the
\* lookup failed and the transport, which would have succeeded, was not
\* invoked.
C20_Witness ==
  /\ pr.pc = "done"
  /\ pr.kind = "benign"
  /\ ~Found
  /\ pr.result.ok
  /\ ~pr.out.ret.ok
  /\ pr.out.doCalls = 0

\* C21: when transact_contract of the live client has accepted the
\* transaction, the transport closure has returned Ok with no return data,
\* whatever value transact_contract produced, and the report has succeeded;
\* a report that reached transact_contract has failed only if
\* transact_contract failed, and then with its import error.
C21_AcceptedSubmissionMakesReportSucceed ==
  \A t \in Threads : (Returning(t) /\ th[t].transacts = 1) =>
    /\ th[t].tx.ok =>
         /\ th[t].out = [ok |-> TRUE, val |-> <<>>, err |-> [fmt |-> "", arg |-> ""]]
         /\ th[t].res = [ok |-> TRUE, val |-> <<>>, err |-> [fmt |-> "", arg |-> ""]]
    /\ ~th[t].tx.ok =>
         /\ ~th[t].out.ok
         /\ th[t].out.err \in ImportErrorTexts
         /\ th[t].res = th[t].out
    /\ th[t].res.ok <=> th[t].tx.ok

\* transact_contract returned a value, the closure dropped it and the
\* report succeeded.
C21_Witness ==
  \E t \in Threads :
    /\ Succeeded(t)
    /\ th[t].tx.ok /\ th[t].tx.val # <<>>
    /\ th[t].out.ok /\ th[t].out.val = <<>>
    /\ th[t].op = "benign"

\* The step is one of thread t in a contains, get or count call: the call
\* itself or its return.
QueryStep(t) ==
  /\ th'[t] # th[t]
  /\ th[t].op \in QueryOps \/ th'[t].op \in QueryOps

\* C22: a step of contains, get or count leaves the slot, its lock, the
\* delegate's client and everything else of the decorator as it is, and a
\* query that has its answer can return whoever holds the lock; a step of a
\* report leaves the slot as it is too, so the slot changes only in a step
\* of a register_contract call that holds the write guard.
C22_QueriesAndReportsLeaveTheSlot ==
  [][/\ \A t \in Threads : QueryStep(t) =>
          /\ provider' = provider
          /\ readers' = readers
          /\ writer' = writer
          /\ delegateClient' = delegateClient
          /\ clientOwned' = clientOwned
          /\ regHist' = regHist
          /\ callVars' = callVars
          /\ t \notin readers /\ writer # t
     /\ \A t \in Threads :
          (th[t].pc = "ret" /\ (writer # 0 \/ \E u \in Threads : InTransport(u))) =>
            ENABLED QueryReturn(t)
     /\ \A t \in Threads : (IsReport(t) /\ th'[t] # th[t]) => provider' = provider
     /\ provider' # provider =>
          \E t \in Threads : IsRegister(t) /\ writer = t /\ th'[t] # th[t]]_vars

\* count has its answer while a register_contract call holds the write
\* guard and another thread's report waits for it.
C22_Witness ==
  \E t, u \in Threads :
    /\ Answered(t, "count")
    /\ writer = u /\ th[u].pc = "reg_store"
    /\ t # u

(***************************************************************************)
(* rpc/src/v1/types/trace.rs: the RPC shadows of the execution traces,     *)
(* how LocalizedTrace and Trace are serialized and how a VM trace of the   *)
(* executive is converted.  The values are looked at alone: one value is   *)
(* built, and one conversion of it is made.                                *)
(***************************************************************************)
\* Bounds of the VM traces: operations of one trace, entries of its subs.
MaxOps == 2
MaxSubs == 2

\* Option<T>.
None == [some |-> FALSE]
Some(x) == [some |-> TRUE, v |-> x]

\* What a serializer is given.  A value of a type of v1::types or of a
\* primitive type is left to that type's Serialize, named by `ty`.
Leaf(ty, x) == [j |-> "leaf", ty |-> ty, v |-> x]
JStr(text) == Leaf("str", text)
JNull == [j |-> "null"]
Field(key, value) == [key |-> key, val |-> value]

\* Serializer::serialize_struct(name, len): the state of a struct under
\* way, with the number of fields it was told to expect.
SerializeStruct(name, len) ==
  [j |-> "object", name |-> name, len |-> len, fields |-> <<>>]

\* Serializer::serialize_struct_elt(&mut state, key, value).
SerializeStructElt(state, key, value) ==
  [state EXCEPT !.fields = Append(@, Field(key, value))]

\* #[derive(Serialize)] on a struct: its fields in the order they are
\* declared, under their names or their serde(rename), and their number.
Derived(name, fields) ==
  [j |-> "object", name |-> name, len |-> Len(fields), fields |-> fields]

\* enum CallType (lines 240-254): unit variants under their serde(rename).
CallTypes == {"None", "Call", "CallCode", "DelegateCall"}

CallTypeSerialize(c) ==
  CASE c = "None" -> JStr("none")
    [] c = "Call" -> JStr("call")
    [] c = "CallCode" -> JStr("callcode")
    [] c = "DelegateCall" -> JStr("delegatecall")

\* struct Call (lines 268-283).
CallSerialize(c) ==
  Derived("Call", <<Field("from", Leaf("H160", c.from)),
                    Field("to", Leaf("H160", c.to)),
                    Field("value", Leaf("U256", c.value)),
                    Field("gas", Leaf("U256", c.gas)),
                    Field("input", Leaf("Bytes", c.input)),
                    Field("callType", CallTypeSerialize(c.call_type))>>)

\* struct Create (lines 216-226).
CreateSerialize(c) ==
  Derived("Create", <<Field("from", Leaf("H160", c.from)),
                      Field("value", Leaf("U256", c.value)),
                      Field("gas", Leaf("U256", c.gas)),
                      Field("init", Leaf("Bytes", c.init))>>)

\* struct Suicide (lines 299-308).
SuicideSerialize(c) ==
  Derived("Suicide", <<Field("address", Leaf("H160", c.address)),
                       Field("refundAddress", Leaf("H160", c.refund_address)),
                       Field("balance", Leaf("U256", c.balance))>>)

\* struct CallResult (lines 342-349).
CallResultSerialize(c) ==
  Derived("CallResult", <<Field("gasUsed", Leaf("U256", c.gas_used)),
                          Field("output", Leaf("Bytes", c.output))>>)

\* struct CreateResult (lines 361-370).
CreateResultSerialize(c) ==
  Derived("CreateResult", <<Field("gasUsed", Leaf("U256", c.gas_used)),
                            Field("code", Leaf("Bytes", c.code)),
                            Field("address", Leaf("H160", c.address))>>)

\* The errors of a trace that the tests build, and error.to_string() as
\* tests::test_trace_failed_call_serialize expects it.
TraceErrors == {"OutOfGas"}

TraceErrorToString(error) == CASE error = "OutOfGas" -> "Out of gas"

\* enum Action (lines 321-329) and enum Res (lines 383-395): the variant
\* and what it carries.
Variant(name, body) == [variant |-> name, body |-> body]

\* The values of the tests (lines 592-609, 641-657, 687-698), with every
\* call type, every pairing of an action with a result, and a trace
\* address of no, one and two steps.
TraceActions ==
  {Variant("Call", [from |-> 4, to |-> 5, value |-> 6, gas |-> 7,
                    input |-> <<18, 52>>, call_type |-> c]) : c \in CallTypes}
  \cup {Variant("Create", [from |-> 4, value |-> 6, gas |-> 7, init |-> <<18, 52>>]),
        Variant("Suicide", [address |-> 4, refund_address |-> 6, balance |-> 7])}

TraceResults ==
  {Variant("Call", [gas_used |-> 8, output |-> <<86, 120>>]),
   Variant("Create", [gas_used |-> 8, code |-> <<86, 120>>, address |-> 255]),
   Variant("None", [unit |-> TRUE])}
  \cup {Variant("FailedCall", [error |-> e]) : e \in TraceErrors}
  \cup {Variant("FailedCreate", [error |-> e]) : e \in TraceErrors}

TraceAddresses == {<<>>, <<10>>, <<0, 1>>}

\* struct Trace (lines 486-495).
Traces ==
  [trace_address : TraceAddresses, subtraces : 0..1,
   action : TraceActions, result : TraceResults]

\* struct LocalizedTrace (lines 411-428).
LocalizedTraces ==
  [action : TraceActions, result : TraceResults,
   trace_address : TraceAddresses, subtraces : 0..1,
   transaction_position : {11}, transaction_hash : {12},
   block_number : {13}, block_hash : {14}]

\* Variant: a failed creation is written under "result" like a creation.
LocalizedTraceSerializeErrorAsResult(t) ==
  LET state == SerializeStruct("LocalizedTrace", 9)
      acted ==
        CASE t.action.variant = "Call" ->
               SerializeStructElt(SerializeStructElt(state, "type", JStr("call")),
                                  "action", CallSerialize(t.action.body))
          [] t.action.variant = "Create" ->
               SerializeStructElt(SerializeStructElt(state, "type", JStr("create")),
                                  "action", CreateSerialize(t.action.body))
          [] t.action.variant = "Suicide" ->
               SerializeStructElt(SerializeStructElt(state, "type", JStr("suicide")),
                                  "action", SuicideSerialize(t.action.body))
      resulted ==
        CASE t.result.variant = "Call" ->
               SerializeStructElt(acted, "result", CallResultSerialize(t.result.body))
          [] t.result.variant = "Create" ->
               SerializeStructElt(acted, "result", CreateResultSerialize(t.result.body))
          [] t.result.variant = "FailedCall" ->
               SerializeStructElt(acted, "error",
                                  JStr(TraceErrorToString(t.result.body.error)))
          [] t.result.variant = "FailedCreate" ->
               SerializeStructElt(acted, "result",
                                  JStr(TraceErrorToString(t.result.body.error)))
          [] t.result.variant = "None" ->
               SerializeStructElt(acted, "result", JNull)
      s1 == SerializeStructElt(resulted, "traceAddress", Leaf("Vec<usize>", t.trace_address))
      s2 == SerializeStructElt(s1, "subtraces", Leaf("usize", t.subtraces))
      s3 == SerializeStructElt(s2, "transactionPosition",
                               Leaf("usize", t.transaction_position))
      s4 == SerializeStructElt(s3, "transactionHash", Leaf("H256", t.transaction_hash))
      s5 == SerializeStructElt(s4, "blockNumber", Leaf("u64", t.block_number))
  IN  SerializeStructElt(s5, "blockHash", Leaf("H256", t.block_hash))

\* impl Serialize for LocalizedTrace (lines 430-467), statement by
\* statement: the struct is opened for 9 fields (line 434), the match on
\* the action writes "type" and "action" (lines 435-448), the match on the
\* result writes "result" or "error" (lines 450-456), and the six fields of
\* lines 458-463 follow.  The value is the struct as it is ended (line 465).
LocalizedTraceSerialize(t) ==
  LET state == SerializeStruct("LocalizedTrace", 9)
      acted ==
        CASE t.action.variant = "Call" ->
               SerializeStructElt(SerializeStructElt(state, "type", JStr("call")),
                                  "action", CallSerialize(t.action.body))
          [] t.action.variant = "Create" ->
               SerializeStructElt(SerializeStructElt(state, "type", JStr("create")),
                                  "action", CreateSerialize(t.action.body))
          [] t.action.variant = "Suicide" ->
               SerializeStructElt(SerializeStructElt(state, "type", JStr("suicide")),
                                  "action", SuicideSerialize(t.action.body))
      resulted ==
        CASE t.result.variant = "Call" ->
               SerializeStructElt(acted, "result", CallResultSerialize(t.result.body))
          [] t.result.variant = "Create" ->
               SerializeStructElt(acted, "result", CreateResultSerialize(t.result.body))
          [] t.result.variant = "FailedCall" ->
               SerializeStructElt(acted, "error",
                                  JStr(TraceErrorToString(t.result.body.error)))
          [] t.result.variant = "FailedCreate" ->
               SerializeStructElt(acted, "error",
                                  JStr(TraceErrorToString(t.result.body.error)))
          [] t.result.variant = "None" ->
               SerializeStructElt(acted, "result", JNull)
      s1 == SerializeStructElt(resulted, "traceAddress", Leaf("Vec<usize>", t.trace_address))
      s2 == SerializeStructElt(s1, "subtraces", Leaf("usize", t.subtraces))
      s3 == SerializeStructElt(s2, "transactionPosition",
                               Leaf("usize", t.transaction_position))
      s4 == SerializeStructElt(s3, "transactionHash", Leaf("H256", t.transaction_hash))
      s5 == SerializeStructElt(s4, "blockNumber", Leaf("u64", t.block_number))
  IN  SerializeStructElt(s5, "blockHash", Leaf("H256", t.block_hash))

\* impl Serialize for Trace (lines 497-530), statement by statement: the
\* struct is opened for 4 fields (line 501), the two matches are those of
\* LocalizedTrace (lines 502-515, 517-523), and the two fields of lines
\* 525-526 follow.
TraceSerialize(t) ==
  LET state == SerializeStruct("Trace", 4)
      acted ==
        CASE t.action.variant = "Call" ->
               SerializeStructElt(SerializeStructElt(state, "type", JStr("call")),
                                  "action", CallSerialize(t.action.body))
          [] t.action.variant = "Create" ->
               SerializeStructElt(SerializeStructElt(state, "type", JStr("create")),
                                  "action", CreateSerialize(t.action.body))
          [] t.action.variant = "Suicide" ->
               SerializeStructElt(SerializeStructElt(state, "type", JStr("suicide")),
                                  "action", SuicideSerialize(t.action.body))
      resulted ==
        CASE t.result.variant = "Call" ->
               SerializeStructElt(acted, "result", CallResultSerialize(t.result.body))
          [] t.result.variant = "Create" ->
               SerializeStructElt(acted, "result", CreateResultSerialize(t.result.body))
          [] t.result.variant = "FailedCall" ->
               SerializeStructElt(acted, "error",
                                  JStr(TraceErrorToString(t.result.body.error)))
          [] t.result.variant = "FailedCreate" ->
               SerializeStructElt(acted, "error",
                                  JStr(TraceErrorToString(t.result.body.error)))
          [] t.result.variant = "None" ->
               SerializeStructElt(acted, "result", JNull)
      s1 == SerializeStructElt(resulted, "traceAddress", Leaf("Vec<usize>", t.trace_address))
  IN  SerializeStructElt(s1, "subtraces", Leaf("usize", t.subtraces))

\* U256: four 64-bit words, the lowest first.  U256::low_u64 is the lowest
\* word: what the number has above it is cut off.
LowU64(x) == x[1]

\* impl From<et::MemoryDiff> for MemoryDiff (lines 37-44).
MemoryDiffFrom(c) == [off |-> c.offset, data |-> c.data]

\* impl From<et::StorageDiff> for StorageDiff (lines 55-62).
StorageDiffFrom(c) == [key |-> c.location, val |-> c.value]

\* impl From<et::VMExecutedOperation> for VMExecutedOperation (lines 80-89).
VMExecutedOperationFrom(c) ==
  [used |-> LowU64(c.gas_used),
   push |-> c.stack_push,
   mem |-> IF c.mem_diff.some THEN Some(MemoryDiffFrom(c.mem_diff.v)) ELSE None,
   store |-> IF c.store_diff.some THEN Some(StorageDiffFrom(c.store_diff.v)) ELSE None]

\* The operations of tests::test_vmtrace_serialize (lines 709-723, 730-735)
\* as the executive records them, the second with a cost and a gas use that
\* do not fit 64 bits.
EthOperations ==
  {[pc |-> 0, gas_cost |-> <<10, 0, 0, 0>>, executed |-> None],
   [pc |-> 1, gas_cost |-> <<11, 1, 0, 0>>,
    executed |-> Some([gas_used |-> <<10, 1, 0, 0>>, stack_push |-> <<69>>,
                       mem_diff |-> Some([offset |-> 42, data |-> <<1, 2, 3>>]),
                       store_diff |-> Some([location |-> 69, value |-> 42])])]}

SeqsUpTo(S, n) == UNION {[1..k -> S] : k \in 0..n}

\* The sub-traces an operation of index p can be given as parent_step: one
\* of no operation, and one of one operation that has a sub-trace itself.
\* The code of a sub-trace tells which it is.  MaxOps is the index of no
\* operation of any trace.
EthSubs ==
  {[parent_step |-> p, code |-> <<0, p>>, operations |-> <<>>, subs |-> <<>>] :
     p \in 0..MaxOps}
  \cup
  {[parent_step |-> p, code |-> <<1, p>>,
    operations |-> <<[pc |-> 1, gas_cost |-> <<11, 1, 0, 0>>, executed |-> None]>>,
    subs |-> <<[parent_step |-> 0, code |-> <<2>>, operations |-> <<>>,
                subs |-> <<>>]>>] : p \in 0..MaxOps}

\* et::VMTrace as the conversion reads it: code, operations, subs, and the
\* parent_step of a sub-trace.  The subs are in any order.
EthVMTraces ==
  [parent_step : {0}, code : {<<0, 1, 2, 3>>},
   operations : SeqsUpTo(EthOperations, MaxOps),
   subs : SeqsUpTo(EthSubs, MaxSubs)]

RECURSIVE VMTraceFrom(_), VMOperationFrom(_, _), VMTraceFromAnySub(_)

\* impl From<(et::VMOperation, Option<et::VMTrace>)> for VMOperation (lines
\* 105-114): c0 is the operation, c1 the sub-trace it is given.
VMOperationFrom(c0, c1) ==
  [pc |-> c0.pc,
   cost |-> LowU64(c0.gas_cost),
   ex |-> IF c0.executed.some THEN Some(VMExecutedOperationFrom(c0.executed.v)) ELSE None,
   sub |-> IF c1.some THEN Some(VMTraceFrom(c1.v)) ELSE None]

\* Variant: operation i is given whichever entry of subs names it.
VMTraceFromAnySub(c) ==
  LET Named(i) == {k \in 1..Len(c.subs) : c.subs[k].parent_step = i}
      Op(i) ==
        VMOperationFrom(c.operations[i + 1],
                        IF Named(i) # {}
                          THEN Some(c.subs[CHOOSE k \in Named(i) :
                                             \A m \in Named(i) : k <= m])
                          ELSE None)
  IN  [code |-> c.code, ops |-> [k \in 1..Len(c.operations) |-> Op(k - 1)]]

\* impl From<et::VMTrace> for VMTrace (lines 125-145).  Ops(i, k) is what
\* the map of lines 134-141 yields from operation i on when k entries of
\* subs have been taken, so that next_sub is entry k + 1, or None when subs
\* is used up (lines 127-128, 138).
VMTraceFrom(c) ==
  LET RECURSIVE Ops(_, _)
      Ops(i, k) ==
        IF i = Len(c.operations) THEN <<>>
        ELSE LET have_sub == k < Len(c.subs) /\ c.subs[k + 1].parent_step = i
                 r == IF have_sub THEN Some(c.subs[k + 1]) ELSE None
             IN  <<VMOperationFrom(c.operations[i + 1], r)>>
                   \o Ops(i + 1, IF have_sub THEN k + 1 ELSE k)
  IN  [code |-> c.code, ops |-> Ops(0, 0)]

\* Nothing has been converted yet.
NoOut == [none |-> TRUE]

TraceValue(kind, input) == [pc |-> "new", kind |-> kind, input |-> input, out |-> NoOut]

\* One value of one of the three types is built.
TraceInit ==
  /\ DecoratorInit
  /\ pr = NoRun
  /\ \/ \E t \in LocalizedTraces : tr = TraceValue("LocalizedTrace", t)
     \/ \E t \in Traces : tr = TraceValue("Trace", t)
     \/ \E c \in EthVMTraces : tr = TraceValue("VMTrace", c)

\* serde_json::to_string(&t) of a LocalizedTrace.
localized_trace_serialize ==
  /\ tr.pc = "new" /\ tr.kind = "LocalizedTrace"
  /\ tr' = [tr EXCEPT !.pc = "done", !.out = LocalizedTraceSerialize(tr.input)]
  /\ UNCHANGED <<decoratorVars, pr>>

\* serde_json::to_string(&t) of a Trace.
trace_serialize ==
  /\ tr.pc = "new" /\ tr.kind = "Trace"
  /\ tr' = [tr EXCEPT !.pc = "done", !.out = TraceSerialize(tr.input)]
  /\ UNCHANGED <<decoratorVars, pr>>

\* VMTrace::from(c) of an et::VMTrace.
vm_trace_from ==
  /\ tr.pc = "new" /\ tr.kind = "VMTrace"
  /\ tr' = [tr EXCEPT !.pc = "done", !.out = VMTraceFrom(tr.input)]
  /\ UNCHANGED <<decoratorVars, pr>>

TraceNext ==
  \/ localized_trace_serialize
  \/ trace_serialize
  \/ vm_trace_from

TraceSpec == TraceInit /\ [][TraceNext]_vars

\* The value of kind `kind` has been converted.
Converted(kind) == tr.pc = "done" /\ tr.kind = kind

Serialized == Converted("LocalizedTrace") \/ Converted("Trace")

\* The keys of the fields of a serialized struct, in the order written.
Keys(object) == [k \in 1..Len(object.fields) |-> object.fields[k].key]

FailedVariants == {"FailedCall", "FailedCreate"}

\* C23: a serialized LocalizedTrace or Trace starts with "type", the name
\* of the action's variant in lower case, and "action", the action's own
\* fields; then comes "error" with the error's text if the result is
\* FailedCall or FailedCreate, and "result" otherwise (null for None, the
\* result's own fields for Call and Create), never both; then
\* traceAddress and subtraces, and for a LocalizedTrace
\* transactionPosition, transactionHash, blockNumber and blockHash.
C23_TraceFieldsInFixedOrder ==
  Serialized =>
    LET t == tr.input
        f == tr.out.fields
        failed == t.result.variant \in FailedVariants
    IN  /\ Keys(tr.out) =
             <<"type", "action", IF failed THEN "error" ELSE "result",
               "traceAddress", "subtraces">>
             \o (IF tr.kind = "LocalizedTrace"
                   THEN <<"transactionPosition", "transactionHash",
                          "blockNumber", "blockHash">>
                   ELSE <<>>)
        /\ f[1].val.ty = "str"
        /\ t.action.variant = "Call" =>
             /\ f[1].val.v = "call"
             /\ Keys(f[2].val) = <<"from", "to", "value", "gas", "input", "callType">>
        /\ t.action.variant = "Create" =>
             /\ f[1].val.v = "create"
             /\ Keys(f[2].val) = <<"from", "value", "gas", "init">>
        /\ t.action.variant = "Suicide" =>
             /\ f[1].val.v = "suicide"
             /\ Keys(f[2].val) = <<"address", "refundAddress", "balance">>
        /\ failed <=> f[3].key = "error"
        /\ failed => f[3].val = [j |-> "leaf", ty |-> "str", v |-> "Out of gas"]
        /\ t.result.variant = "None" => f[3].val = [j |-> "null"]
        /\ t.result.variant = "Call" => Keys(f[3].val) = <<"gasUsed", "output">>
        /\ t.result.variant = "Create" => Keys(f[3].val) = <<"gasUsed", "code", "address">>
        /\ f[4].val.v = t.trace_address
        /\ f[5].val.v = t.subtraces
        /\ tr.kind = "LocalizedTrace" =>
             /\ f[6].val.v = t.transaction_position
             /\ f[7].val.v = t.transaction_hash
             /\ f[8].val.v = t.block_number
             /\ f[9].val.v = t.block_hash

\* A LocalizedTrace of a creation that failed has been serialized: "error"
\* stands where "result" would.
C23_Witness ==
  /\ Converted("LocalizedTrace")
  /\ tr.input.action.variant = "Create"
  /\ tr.input.result.variant = "FailedCreate"
  /\ tr.out.fields[3].key = "error"
  /\ Len(tr.out.fields) = 9

\* The entries of subs rise strictly in parent_step, and each names an
\* operation of the trace.
SortedInRange(c) ==
  /\ \A a, b \in 1..Len(c.subs) :
       a < b => c.subs[a].parent_step < c.subs[b].parent_step
  /\ \A a \in 1..Len(c.subs) : c.subs[a].parent_step < Len(c.operations)

\* C24: the converted trace has the operations of the given one, as many
\* and in their order (pc, the low 64 bits of the cost, what was executed);
\* operation i has a sub-trace exactly when the first entry of subs that no
\* earlier operation was given has parent_step = i, and it is that entry,
\* converted; and when subs rises strictly in parent_step and names only
\* operations of the trace, every entry of subs is given to the operation
\* its parent_step names and to no other, so that none is lost.
C24_SubTracesFollowTheCursor ==
  Converted("VMTrace") =>
    LET c == tr.input
        out == tr.out
        n == Len(c.operations)
        Attached(i) == out.ops[i + 1].sub.some
        Taken(i) == Cardinality({m \in 0..(i - 1) : Attached(m)})
        Expected(sub) ==
          IF sub.code[1] = 0
            THEN [code |-> sub.code, ops |-> <<>>]
            ELSE [code |-> sub.code,
                  ops |-> <<[pc |-> 1, cost |-> 11, ex |-> [some |-> FALSE],
                             sub |-> [some |-> TRUE,
                                      v |-> [code |-> <<2>>, ops |-> <<>>]]]>>]
    IN  /\ out.code = c.code
        /\ Len(out.ops) = n
        /\ \A i \in 0..(n - 1) :
             /\ out.ops[i + 1].pc = c.operations[i + 1].pc
             /\ out.ops[i + 1].cost = c.operations[i + 1].gas_cost[1]
             /\ out.ops[i + 1].ex.some = c.operations[i + 1].executed.some
             /\ Attached(i) <=>
                  /\ Taken(i) < Len(c.subs)
                  /\ c.subs[Taken(i) + 1].parent_step = i
             /\ Attached(i) => out.ops[i + 1].sub.v = Expected(c.subs[Taken(i) + 1])
        /\ SortedInRange(c) =>
             /\ Taken(n) = Len(c.subs)
             /\ \A a \in 1..Len(c.subs) :
                  /\ Attached(c.subs[a].parent_step)
                  /\ out.ops[c.subs[a].parent_step + 1].sub.v = Expected(c.subs[a])

\* A trace of two operations has been converted whose subs name the first
\* and then the second, the second sub-trace having one of its own: both
\* operations carry theirs.
C24_Witness ==
  /\ Converted("VMTrace")
  /\ Len(tr.input.operations) = 2
  /\ Len(tr.input.subs) = 2
  /\ SortedInRange(tr.input)
  /\ tr.input.subs[2].code = <<1, 1>>
  /\ tr.out.ops[1].sub.some
  /\ tr.out.ops[2].sub.some
  /\ tr.out.ops[2].sub.v.ops[1].sub.some

\* C25: a serialized LocalizedTrace has as many fields as the 9 its
\* serialize declares to serialize_struct, and a serialized Trace as many
\* as the 4 its serialize declares, whatever the action and the result.
C25_EmittedFieldsAreTheDeclaredCount ==
  Serialized =>
    /\ tr.out.len = (IF tr.kind = "LocalizedTrace" THEN 9 ELSE 4)
    /\ Len(tr.out.fields) = tr.out.len

=============================================================================
